---- MODULE Spec2Model ----
(***************************************************************************)
(* A model of micrograd's reverse-mode autodiff engine                     *)
(* (src/micrograd/engine.py, class Value) and of the caller-side gradient  *)
(* reset (src/micrograd/nn.py, Module.zero_grad).                          *)
(*                                                                         *)
(* A Value object is identified by its position in `nodes` (creation       *)
(* order).  The closure stored in `_backward` is represented by the fields *)
(* op / self / other of the node it was installed on.  backward() is       *)
(* single-threaded; it is unrolled into steps (pc) so that the order in    *)
(* which the rules are invoked can be observed.                            *)
(***************************************************************************)
EXTENDS Integers, Sequences, FiniteSets

\* ------------------------------------------------------------------ bounds

\* an operator is applied when the graph holds at most MaxNodes Value objects
\* afterwards,
MaxNodes == 3
\* or when it is the one operator applied to a single Value, whatever it builds
\* (other - self builds four objects) up to MaxDerived objects in all
MaxDerived == 5
\* at most this many calls of backward() in one run
MaxBackward == 2
\* numbers handed to Value(...) by the caller
LeafData == {0, 2}
\* plain numbers used as the non-Value operand of an operator (coerced)
Numbers == {2}
\* constant exponents handed to **
Exponents == {-1, 0, 2}

\* ------------------------------------------------------------------ numbers

\* A Python number held in data / grad.  Integer-valued results are tracked
\* exactly; any other float (the result of exp, tanh or a negative power) is
\* a finite float other than 0.0 whose value is not tracked.
Num(n) == [exact |-> TRUE, v |-> n]
Untracked == [exact |-> FALSE, v |-> 0]

\* x + y
Plus(x, y) == IF x.exact /\ y.exact THEN Num(x.v + y.v) ELSE Untracked

\* x + y as the data of a new node: a sum of untracked floats may cancel to
\* 0.0 (x - x does); z tells whether it did
Sum(x, y, z) == IF x.exact /\ y.exact THEN Num(x.v + y.v) ELSE IF z THEN Num(0) ELSE Untracked

\* x * y (a finite float times zero is zero)
Times(x, y) ==
    IF x.exact /\ y.exact THEN Num(x.v * y.v)
    ELSE IF (x.exact /\ x.v = 0) \/ (y.exact /\ y.v = 0) THEN Num(0)
    ELSE Untracked

RECURSIVE IntPow(_, _)
IntPow(b, e) == IF e = 0 THEN 1 ELSE b * IntPow(b, e - 1)

\* x ** p for a constant integer exponent p.  Python raises
\* ZeroDivisionError for 0 ** negative.  0 ** 0 is 1.
PowRaises(x, p) == p < 0 /\ x.exact /\ x.v = 0
PowValue(x, p) ==
    IF p = 0 THEN Num(1)
    ELSE IF ~x.exact THEN Untracked
    ELSE IF p > 0 THEN Num(IntPow(x.v, p))
    ELSE IF x.v = 1 THEN Num(1)
    ELSE IF x.v = -1 THEN Num(IntPow(-1, -p))
    ELSE Untracked

\* math.exp(x): exp(0) is exactly 1; OverflowError above ~709.78
ExpRaises(x) == x.exact /\ x.v > 709
ExpValue(x) == IF x.exact /\ x.v = 0 THEN Num(1) ELSE Untracked

\* (math.exp(2x) - 1) / (math.exp(2x) + 1)
TanhRaises(x) == x.exact /\ 2 * x.v > 709
TanhValue(x) == IF x.exact /\ x.v = 0 THEN Num(0) ELSE Untracked

\* ------------------------------------------------------------------ state

VARIABLES
    nodes,      \* the Value objects, in creation order
    pc,         \* "idle", or the position inside backward()
    root,       \* the node backward() was called on
    topo,       \* backward(): the list topo
    visited,    \* backward(): the set visited
    stack,      \* backward(): the active calls of build_topo, innermost last
    k,          \* backward(): position of the walk in topo (reversed order)
    raised,     \* the exception the last operation raised, or "none"
    invoked,    \* history: nodes whose _backward ran in the current/last call
    resetAll,   \* history: every grad was set to 0 since the last backward()
    calls       \* history: the backward() calls that have ended

vars == <<nodes, pc, root, topo, visited, stack, k, raised, invoked, resetAll,
          calls>>

backwardVars == <<root, topo, visited, stack, k, invoked>>

Ids == 1..Len(nodes)

\* an operand of an operator: a Value object or a plain number
Ref(i) == [isValue |-> TRUE, v |-> i]
Lit(n) == [isValue |-> FALSE, v |-> n]

\* the spec's UnsupportedExponentType is the failed assert of __pow__
UnsupportedExponentType == "AssertionError"

\* ------------------------------------------------------------------ Value

\* Value.__init__: the iteration order of set(_children) is arbitrary but
\* fixed once the set is built; `first` chooses it.
SetOf(children, first) ==
    IF Len(children) = 2 /\ children[1] # children[2]
    THEN IF first THEN children ELSE <<children[2], children[1]>>
    ELSE IF Len(children) = 0 THEN <<>> ELSE <<children[1]>>

Value(data, children, op, first) ==
    [data |-> data, grad |-> Num(0), prev |-> SetOf(children, first),
     op |-> IF op = "" THEN "leaf" ELSE op,
     self |-> IF Len(children) > 0 THEN children[1] ELSE 0,
     other |-> IF Len(children) > 1 THEN children[2] ELSE 0]

\* other = other if isinstance(other, Value) else Value(other)
Coerce(ns, o) ==
    IF o.isValue THEN [ns |-> ns, id |-> o.v]
    ELSE [ns |-> Append(ns, Value(Num(o.v), <<>>, "", TRUE)), id |-> Len(ns) + 1]

\* an add whose result lists itself among its children
add_self_child(ns, s, o, first, z) ==
    LET c == Coerce(ns, o)
        out == Value(Sum(c.ns[s].data, c.ns[c.id].data, z), <<s, Len(c.ns) + 1>>, "+", first)
    IN [ns |-> Append(c.ns, out), id |-> Len(c.ns) + 1]

\* Value.__add__ on the heap ns: the heap afterwards and the id of out
add(ns, s, o, first, z) ==
    LET c == Coerce(ns, o)
        out == Value(Sum(c.ns[s].data, c.ns[c.id].data, z), <<s, c.id>>, "+", first)
    IN [ns |-> Append(c.ns, out), id |-> Len(c.ns) + 1]

\* a mul that writes the local derivative into its operand when it is built
mul_eager(ns, s, o, first) ==
    LET c == Coerce(ns, o)
        out == Value(Times(c.ns[s].data, c.ns[c.id].data), <<s, c.id>>, "*", first)
    IN [ns |-> Append([c.ns EXCEPT ![s].grad = Plus(@, c.ns[c.id].data)], out),
        id |-> Len(c.ns) + 1]

\* Value.__mul__
mul(ns, s, o, first) ==
    LET c == Coerce(ns, o)
        out == Value(Times(c.ns[s].data, c.ns[c.id].data), <<s, c.id>>, "*", first)
    IN [ns |-> Append(c.ns, out), id |-> Len(c.ns) + 1]

\* Value.__pow__ with an int exponent p (the closure keeps p in `other`)
pow(ns, s, p) ==
    LET out == [Value(PowValue(ns[s].data, p), <<s>>, "**", TRUE) EXCEPT !.other = p]
    IN [ns |-> Append(ns, out), id |-> Len(ns) + 1]

\* the shape of the state: a Value holds data, grad, _prev and what its
\* _backward closure captured (op, self, other)
Number == [exact : BOOLEAN, v : Int]
TypeOK ==
    /\ \A i \in Ids :
           /\ nodes[i].data \in Number /\ nodes[i].grad \in Number
           /\ nodes[i].op \in {"leaf", "+", "*", "**", "exp", "tanh"}
           /\ \A j \in 1..Len(nodes[i].prev) : nodes[i].prev[j] \in Ids
           /\ nodes[i].self \in Ids \cup {0}
           /\ nodes[i].other \in Int
    /\ pc \in {"idle", "build_topo", "set_grad", "walk"}
    /\ root \in Ids \cup {0}
    /\ \A j \in 1..Len(topo) : topo[j] \in visited
    /\ visited \subseteq Ids
    /\ \A j \in 1..Len(stack) : stack[j].v \in visited
    /\ k \in 0..Len(topo)
    /\ raised \in {"none", "AssertionError", "ZeroDivisionError", "OverflowError"}
    /\ \A j \in 1..Len(invoked) : invoked[j] \in Ids
    /\ resetAll \in BOOLEAN
    /\ \A j \in 1..Len(calls) :
           calls[j].root \in Ids /\ calls[j].status \in {"running", "returned", "raised"}

\* ------------------------------------------------------------------ Init

Init ==
    /\ nodes = <<>>
    /\ pc = "idle"
    /\ root = 0
    /\ topo = <<>>
    /\ visited = {}
    /\ stack = <<>>
    /\ k = 0
    /\ raised = "none"
    /\ invoked = <<>>
    /\ resetAll = FALSE
    /\ calls = <<>>

\* ------------------------------------------------------------------ operators

\* the caller is between two calls; nothing in the program catches an
\* exception, so a run ends with the first one raised
Idle == pc = "idle" /\ raised = "none"

\* an operator call returned the heap ns
Returns(ns) ==
    /\ Len(ns) <= MaxNodes \/ (Len(nodes) = 1 /\ Len(ns) <= MaxDerived)
    /\ nodes' = ns
    /\ raised' = "none"
    /\ UNCHANGED <<pc, backwardVars, resetAll, calls>>

\* an operator call raised exc; the objects it had created are unreachable
Raises(exc) ==
    /\ raised' = exc
    /\ UNCHANGED <<nodes, pc, backwardVars, resetAll, calls>>

Operands == {Ref(i) : i \in Ids} \cup {Lit(n) : n \in Numbers}

\* Value(d)
NewValue(d) ==
    /\ Idle
    /\ Returns(Append(nodes, Value(Num(d), <<>>, "", TRUE)))

\* self + other
Add(s, o, first, z) ==
    /\ Idle
    /\ Returns(add(nodes, s, o, first, z).ns)

\* other + self, other a plain number
Radd(s, n, first, z) ==
    /\ Idle
    /\ Returns(add(nodes, s, Lit(n), first, z).ns)

\* self * other
Mul(s, o, first) ==
    /\ Idle
    /\ Returns(mul(nodes, s, o, first).ns)

\* other * self, other a plain number
Rmul(s, n, first) ==
    /\ Idle
    /\ Returns(mul(nodes, s, Lit(n), first).ns)

\* -self
Neg(s, first) ==
    /\ Idle
    /\ Returns(mul(nodes, s, Lit(-1), first).ns)

\* a ** without the assert: a Value exponent is used through its data
PowNoAssert(s, e) ==
    /\ Idle
    /\ LET p == IF e.isValue THEN nodes[e.v].data.v ELSE e.v
       IN IF PowRaises(nodes[s].data, p)
          THEN Raises("ZeroDivisionError")
          ELSE Returns(pow(nodes, s, p).ns)

\* self ** e: e is a constant exponent or (an error) a Value
Pow(s, e) ==
    /\ Idle
    /\ IF e.isValue
       THEN Raises("AssertionError")
       ELSE IF PowRaises(nodes[s].data, e.v)
            THEN Raises("ZeroDivisionError")
            ELSE Returns(pow(nodes, s, e.v).ns)

\* self - other
Sub(s, o, first, first2, z) ==
    /\ Idle
    /\ IF o.isValue
       THEN LET neg == mul(nodes, o.v, Lit(-1), first)
            IN Returns(add(neg.ns, s, Ref(neg.id), first2, z).ns)
       ELSE Returns(add(nodes, s, Lit(-o.v), first, z).ns)

\* other - self, other a plain number
Rsub(s, n, first, first2, z) ==
    /\ Idle
    /\ LET neg == mul(nodes, s, Lit(-1), first)
       IN Returns(add(neg.ns, neg.id, Lit(n), first2, z).ns)

\* self / other
Truediv(s, o, first) ==
    /\ Idle
    /\ LET c == Coerce(nodes, o)
       IN IF PowRaises(c.ns[c.id].data, -1)
          THEN Raises("ZeroDivisionError")
          ELSE LET inv == pow(c.ns, c.id, -1)
               IN Returns(mul(inv.ns, s, Ref(inv.id), first).ns)

\* other / self, other a plain number
Rtruediv(s, n, first) ==
    /\ Idle
    /\ IF PowRaises(nodes[s].data, -1)
       THEN Raises("ZeroDivisionError")
       ELSE LET inv == pow(nodes, s, -1)
            IN Returns(mul(inv.ns, inv.id, Lit(n), first).ns)

\* self.exp()
Exp(s) ==
    /\ Idle
    /\ IF ExpRaises(nodes[s].data)
       THEN Raises("OverflowError")
       ELSE Returns(Append(nodes, Value(ExpValue(nodes[s].data), <<s>>, "exp", TRUE)))

\* self.tanh()
Tanh(s) ==
    /\ Idle
    /\ IF TanhRaises(nodes[s].data)
       THEN Raises("OverflowError")
       ELSE Returns(Append(nodes, Value(TanhValue(nodes[s].data), <<s>>, "tanh", TRUE)))

\* ------------------------------------------------------------------ backward

Grads(ns) == [i \in 1..Len(ns) |-> ns[i].grad]

\* x - y
Minus(x, y) == IF x.exact /\ y.exact THEN Num(x.v - y.v) ELSE Untracked

\* does the closure _backward of node i raise?  Only the rule of ** can:
\* self.data ** (other - 1) is a negative power when other <= 0.
RuleRaises(ns, i) ==
    /\ ns[i].op = "**"
    /\ PowRaises(ns[ns[i].self].data, ns[i].other - 1)

\* __add__._backward of the node out = ns[i]
add_backward(ns, i) ==
    LET n1 == [ns EXCEPT ![ns[i].self].grad = Plus(@, ns[i].grad)]
    IN [n1 EXCEPT ![ns[i].other].grad = Plus(@, n1[i].grad)]

\* a mul rule that walks out._prev, one contribution for each child in the set
mul_backward_per_child(ns, i) ==
    LET s == ns[i].self
        o == ns[i].other
        n1 == [ns EXCEPT ![s].grad = Plus(@, Times(ns[o].data, ns[i].grad))]
    IN IF s = o THEN n1
       ELSE [n1 EXCEPT ![o].grad = Plus(@, Times(n1[s].data, n1[i].grad))]

\* a mul rule that assigns (=) where the code accumulates (+=)
mul_backward_assign(ns, i) ==
    LET s == ns[i].self
        o == ns[i].other
        n1 == [ns EXCEPT ![s].grad = Times(ns[o].data, ns[i].grad)]
    IN [n1 EXCEPT ![o].grad = Times(n1[s].data, n1[i].grad)]

\* __mul__._backward
mul_backward(ns, i) ==
    LET s == ns[i].self
        o == ns[i].other
        n1 == [ns EXCEPT ![s].grad = Plus(@, Times(ns[o].data, ns[i].grad))]
    IN [n1 EXCEPT ![o].grad = Plus(@, Times(n1[s].data, n1[i].grad))]

\* __pow__._backward: other * self.data ** (other - 1) * out.grad
pow_backward(ns, i) ==
    LET s == ns[i].self
        p == ns[i].other
    IN [ns EXCEPT ![s].grad =
           Plus(@, Times(Times(Num(p), PowValue(ns[s].data, p - 1)), ns[i].grad))]

\* exp._backward
exp_backward(ns, i) ==
    [ns EXCEPT ![ns[i].self].grad = Plus(@, Times(ns[i].data, ns[i].grad))]

\* tanh._backward
tanh_backward(ns, i) ==
    [ns EXCEPT ![ns[i].self].grad =
        Plus(@, Times(Minus(Num(1), PowValue(ns[i].data, 2)), ns[i].grad))]

\* node._backward() for node i, run on the heap ns
Rule(ns, i) ==
    CASE ns[i].op = "leaf" -> ns
      [] ns[i].op = "+" -> add_backward(ns, i)
      [] ns[i].op = "*" -> mul_backward(ns, i)
      [] ns[i].op = "**" -> pow_backward(ns, i)
      [] ns[i].op = "exp" -> exp_backward(ns, i)
      [] ns[i].op = "tanh" -> tanh_backward(ns, i)

\* the record of the running call in the history
EndCall(status, ns) ==
    [calls EXCEPT ![Len(calls)].status = status, ![Len(calls)].end = Grads(ns)]

\* backward(): entry, and the outermost call build_topo(self)
Backward(r) ==
    /\ Idle
    /\ Len(calls) < MaxBackward
    /\ pc' = "build_topo"
    /\ root' = r
    /\ topo' = <<>>
    /\ visited' = {r}
    /\ stack' = <<[v |-> r, i |-> 1]>>
    /\ k' = 0
    /\ invoked' = <<>>
    /\ raised' = "none"
    /\ calls' = Append(calls, [root |-> r, start |-> Grads(nodes),
                               end |-> <<>>, afterReset |-> resetAll,
                               status |-> "running"])
    /\ resetAll' = FALSE
    /\ UNCHANGED nodes

\* a build_topo without the test `if v not in visited`
BuildTopoNoVisited ==
    /\ pc = "build_topo"
    /\ LET d == Len(stack)
           v == stack[d].v
           i == stack[d].i
       IN IF i <= Len(nodes[v].prev)
          THEN LET child == nodes[v].prev[i]
                   rest == [stack EXCEPT ![d].i = i + 1]
               IN /\ IF TRUE
                     THEN /\ visited' = visited \cup {child}
                          /\ stack' = Append(rest, [v |-> child, i |-> 1])
                     ELSE /\ visited' = visited
                          /\ stack' = rest
                  /\ UNCHANGED <<topo, pc>>
          ELSE /\ topo' = Append(topo, v)
               /\ stack' = SubSeq(stack, 1, d - 1)
               /\ pc' = IF d = 1 THEN "set_grad" ELSE "build_topo"
               /\ UNCHANGED visited
    /\ UNCHANGED <<nodes, root, k, raised, invoked, resetAll, calls>>

\* build_topo: one iteration of `for child in v._prev` of the innermost call
\* (with the test and visited.add of the call it makes), or its
\* topo.append(v) and return
BuildTopo ==
    /\ pc = "build_topo"
    /\ LET d == Len(stack)
           v == stack[d].v
           i == stack[d].i
       IN IF i <= Len(nodes[v].prev)
          THEN LET child == nodes[v].prev[i]
                   rest == [stack EXCEPT ![d].i = i + 1]
               IN /\ IF child \notin visited
                     THEN /\ visited' = visited \cup {child}
                          /\ stack' = Append(rest, [v |-> child, i |-> 1])
                     ELSE /\ visited' = visited
                          /\ stack' = rest
                  /\ UNCHANGED <<topo, pc>>
          ELSE /\ topo' = Append(topo, v)
               /\ stack' = SubSeq(stack, 1, d - 1)
               /\ pc' = IF d = 1 THEN "set_grad" ELSE "build_topo"
               /\ UNCHANGED visited
    /\ UNCHANGED <<nodes, root, k, raised, invoked, resetAll, calls>>

\* a driver that accumulates into the root's grad (+= 1.0)
SetGradAccumulate ==
    /\ pc = "set_grad"
    /\ nodes' = [nodes EXCEPT ![root].grad = Plus(@, Num(1))]
    /\ k' = Len(topo)
    /\ pc' = "walk"
    /\ UNCHANGED <<root, topo, visited, stack, raised, invoked, resetAll, calls>>

\* self.grad = 1.0
SetGrad ==
    /\ pc = "set_grad"
    /\ nodes' = [nodes EXCEPT ![root].grad = Num(1)]
    /\ k' = Len(topo)
    /\ pc' = "walk"
    /\ UNCHANGED <<root, topo, visited, stack, raised, invoked, resetAll, calls>>

\* backward() is left: its locals are gone
Locals(on) ==
    /\ root' = IF on THEN root ELSE 0
    /\ topo' = IF on THEN topo ELSE <<>>
    /\ visited' = IF on THEN visited ELSE {}
    /\ UNCHANGED stack

\* one iteration of `for node in reversed(topo): node._backward()`
Walk ==
    /\ pc = "walk"
    /\ LET node == topo[k]
       IN /\ invoked' = Append(invoked, node)
          /\ IF RuleRaises(nodes, node)
             THEN /\ raised' = "ZeroDivisionError"
                  /\ pc' = "idle"
                  /\ calls' = EndCall("raised", nodes)
                  /\ k' = 0
                  /\ Locals(FALSE)
                  /\ UNCHANGED nodes
             ELSE /\ nodes' = Rule(nodes, node)
                  /\ k' = k - 1
                  /\ pc' = IF k = 1 THEN "idle" ELSE "walk"
                  /\ calls' = IF k = 1 THEN EndCall("returned", Rule(nodes, node))
                                       ELSE calls
                  /\ Locals(k > 1)
                  /\ UNCHANGED raised
    /\ UNCHANGED resetAll

\* ------------------------------------------------------------------ reset

\* a reset of the leaves only (the weights and biases), not of every node
zero_grad_leaves ==
    /\ Idle
    /\ nodes' = [i \in Ids |-> IF nodes[i].op = "leaf"
                               THEN [nodes[i] EXCEPT !.grad = Num(0)]
                               ELSE nodes[i]]
    /\ resetAll' = (calls # <<>>)
    /\ raised' = "none"
    /\ UNCHANGED <<pc, backwardVars, calls>>

\* Module.zero_grad, self.parameters() holding every node of the graph
zero_grad ==
    /\ Idle
    /\ nodes' = [i \in Ids |-> [nodes[i] EXCEPT !.grad = Num(0)]]
    /\ resetAll' = (calls # <<>>)
    /\ raised' = "none"
    /\ UNCHANGED <<pc, backwardVars, calls>>

\* ------------------------------------------------------------------ Next

\* the inputs of an operator that make a difference: a set of one element
\* has one order, and a sum of exactly known numbers is exactly known
Firsts(s, o) == IF o.isValue /\ o.v = s THEN {TRUE} ELSE BOOLEAN
Cancels(s, o) ==
    IF nodes[s].data.exact /\ (o.isValue => nodes[o.v].data.exact)
    THEN {FALSE} ELSE BOOLEAN
PowOperands == {Ref(i) : i \in Ids} \cup {Lit(p) : p \in Exponents}

Next ==
    \/ \E d \in LeafData : NewValue(d)
    \/ \E s \in Ids, o \in Operands :
          \E first \in Firsts(s, o), z \in Cancels(s, o) : Add(s, o, first, z)
    \/ \E s \in Ids, n \in Numbers, first \in BOOLEAN :
          \E z \in Cancels(s, Lit(n)) : Radd(s, n, first, z)
    \/ \E s \in Ids, o \in Operands : \E first \in Firsts(s, o) : Mul(s, o, first)
    \/ \E s \in Ids, n \in Numbers, first \in BOOLEAN : Rmul(s, n, first)
    \/ \E s \in Ids, first \in BOOLEAN : Neg(s, first)
    \/ \E s \in Ids, e \in PowOperands : Pow(s, e)
    \/ \E s \in Ids, o \in Operands, first \in BOOLEAN, first2 \in BOOLEAN :
          \E z \in Cancels(s, o) : Sub(s, o, first, first2, z)
    \/ \E s \in Ids, n \in Numbers, first \in BOOLEAN, first2 \in BOOLEAN :
          \E z \in Cancels(s, Lit(n)) : Rsub(s, n, first, first2, z)
    \/ \E s \in Ids, o \in Operands, first \in BOOLEAN : Truediv(s, o, first)
    \/ \E s \in Ids, n \in Numbers, first \in BOOLEAN : Rtruediv(s, n, first)
    \/ \E s \in Ids : Exp(s)
    \/ \E s \in Ids : Tanh(s)
    \/ \E r \in Ids : Backward(r)
    \/ BuildTopo
    \/ SetGrad
    \/ Walk
    \/ zero_grad

Spec == Init /\ [][Next]_vars

\* backward() is straight-line code of one thread: once called it keeps running
InBackward == BuildTopo \/ SetGrad \/ Walk

FairSpec == Spec /\ WF_vars(InBackward)

\* ------------------------------------------------------------------ graph

Range(f) == {f[i] : i \in 1..Len(f)}

\* v._prev
Children(i) == Range(nodes[i].prev)

\* the nodes reachable from r through _prev (r included)
RECURSIVE Reach(_)
Reach(r) == {r} \cup UNION {Reach(c) : c \in Children(r)}

\* the nodes of S that have x as a child
Parents(x, S) == {q \in S : x \in Children(q)}

\* the descendants of i, found in at most n rounds; total on any graph
RECURSIVE Below(_, _)
Below(i, n) ==
    IF n = 0 THEN Children(i)
    ELSE LET b == Below(i, n - 1) IN b \cup UNION {Children(c) : c \in b}

AllZero(g) == \A i \in 1..Len(g) : g[i] = Num(0)

\* a graph of leaves, +, * and ** whose data are all integers
ExactGraph(r) ==
    \A i \in Reach(r) : nodes[i].data.exact /\ nodes[i].op \in {"leaf", "+", "*", "**"}

\* d(node n)/d(node x) by the rules of calculus (forward accumulation), for a
\* graph that satisfies ExactGraph; the derivative of x ** 0 is 0.
RECURSIVE Derivative(_, _)
Derivative(n, x) ==
    LET nd == nodes[n]
    IN IF n = x THEN 1
       ELSE CASE nd.op = "leaf" -> 0
              [] nd.op = "+" -> Derivative(nd.self, x) + Derivative(nd.other, x)
              [] nd.op = "*" -> Derivative(nd.self, x) * nodes[nd.other].data.v
                                + nodes[nd.self].data.v * Derivative(nd.other, x)
              [] nd.op = "**" ->
                   IF nd.other = 0 THEN 0
                   ELSE nd.other * PowValue(nodes[nd.self].data, nd.other - 1).v
                        * Derivative(nd.self, x)

\* the calls of backward() that have ended
Ended == {j \in 1..Len(calls) : calls[j].status # "running"}

\* call j+1 follows call j on the same root
SameRoot(j) == j + 1 \in Ended /\ calls[j].root = calls[j + 1].root

\* g restricted to the nodes that existed when h was taken
Upto(g, h) == [i \in 1..Len(h) |-> g[i]]

\* ------------------------------------------------------------------ claims

\* the grads of the leaves after call j are the analytic derivatives
LeafGrads(j) ==
    \A x \in Reach(calls[j].root) :
        nodes[x].op = "leaf" => calls[j].end[x] = Num(Derivative(calls[j].root, x))

\* C1: chain rule correctness.  For every graph of leaves, +, * and ** over
\* integer data, backward() from grads that are all 0 returns, and leaves in
\* every leaf the analytic derivative of the root with respect to that leaf.
C1_ChainRule ==
    \A j \in Ended :
        (AllZero(calls[j].start) /\ ExactGraph(calls[j].root))
            => calls[j].status = "returned" /\ LeafGrads(j)

\* What does hold of the code for C1: whenever backward() returns, the grads
\* of the leaves are the analytic derivatives.
ChainRuleOnReturn ==
    \A j \in Ended :
        (AllZero(calls[j].start) /\ ExactGraph(calls[j].root)
         /\ calls[j].status = "returned") => LeafGrads(j)

\* the rules invoked so far ran once each, the root's first, and each after
\* the rules of all reachable parents of its node
InvokedInOrder ==
    \A b \in 1..Len(invoked) :
        /\ \A a \in 1..Len(invoked) : a # b => invoked[a] # invoked[b]
        /\ b = 1 => invoked[b] = calls[Len(calls)].root
        /\ \A q \in Parents(invoked[b], Reach(calls[Len(calls)].root)) :
               \E a \in 1..(b - 1) : invoked[a] = q

\* C2: during one call of backward() the rule of every node reachable from
\* the root is invoked exactly once, the root's first, and the rule of a node
\* only after the rules of all its reachable parents.
C2_EveryRuleOnceParentsFirst ==
    calls # <<>> =>
        /\ InvokedInOrder
        /\ Len(calls) \in Ended => Range(invoked) = Reach(calls[Len(calls)].root)

\* What does hold of the code for C2: the order always, and every rule once
\* when backward() returns.
RulesOnceOnReturn ==
    calls # <<>> =>
        /\ InvokedInOrder
        /\ calls[Len(calls)].status = "returned"
               => Range(invoked) = Reach(calls[Len(calls)].root)

\* C3: self-derivative.  Whatever the grads were before the call, when
\* y.backward() has ended, y.grad is 1.0.
C3_SelfDerivative ==
    \A j \in Ended : calls[j].end[calls[j].root] = Num(1)

\* a call has returned whose root held a grad other than 0 and 1 before it
C3_Witness ==
    \E j \in Ended :
        /\ calls[j].status = "returned"
        /\ calls[j].start[calls[j].root] \notin {Num(0), Num(1)}

\* y = x op x for a leaf x whose grad was 0 before call j of y.backward()
SelfOperand(j, op) ==
    LET y == calls[j].root
        x == nodes[y].self
    IN /\ nodes[y].op = op
       /\ nodes[y].other = x
       /\ nodes[x].op = "leaf"
       /\ calls[j].start[x] = Num(0)

\* C4: accumulation when one node is both operands.  After y = x + x and
\* y.backward(), x.grad is 2; after y = x * x and y.backward(), x.grad is
\* 2 * x.data; in both cases the children of y hold x once.
C4_SelfOperand ==
    \A j \in Ended :
        LET y == calls[j].root
            x == nodes[y].self
        IN /\ SelfOperand(j, "+") =>
                  nodes[y].prev = <<x>> /\ calls[j].end[x] = Num(2)
           /\ SelfOperand(j, "*") =>
                  nodes[y].prev = <<x>>
                  /\ calls[j].end[x] = Times(Num(2), nodes[x].data)

\* both cases have happened, the product with x.data = 2
C4_Witness ==
    /\ \E j \in Ended : SelfOperand(j, "+") /\ calls[j].status = "returned"
    /\ \E j \in Ended : /\ SelfOperand(j, "*")
                        /\ calls[j].status = "returned"
                        /\ nodes[nodes[calls[j].root].self].data = Num(2)

\* C5: a ** b with a Value b fails with UnsupportedExponentType and builds no
\* node; a step of ** that builds a node had a constant exponent, which the
\* new node keeps.
C5_PowRejectsValueExponent ==
    [][\A s \in Ids, e \in PowOperands :
          Pow(s, e) =>
              /\ e.isValue => raised' = UnsupportedExponentType /\ nodes' = nodes
              /\ Len(nodes') > Len(nodes) =>
                    /\ ~e.isValue
                    /\ nodes'[Len(nodes')].op = "**"
                    /\ nodes'[Len(nodes')].other = e.v]_vars

\* a ** with a Value exponent has been tried
C5_Witness == raised = UnsupportedExponentType /\ nodes # <<>>

\* call j started from grads all 0, and call j+1 of the same root followed a
\* reset of every grad
ResetBetween(j) ==
    /\ SameRoot(j)
    /\ AllZero(calls[j].start)
    /\ calls[j + 1].afterReset

TwiceInARow(j) ==
    /\ SameRoot(j)
    /\ AllZero(calls[j].start)
    /\ calls[j].status = "returned"
    /\ calls[j + 1].status = "returned"
    /\ ~calls[j + 1].afterReset
    /\ Upto(calls[j + 1].start, calls[j].end) = calls[j].end

OnlyUnderRoot(r) == {x \in Reach(r) \ {r} : Parents(x, Reach(r)) = {r}}

C8_OperatorsHaveNoSideEffects ==
    [][/\ Len(nodes') > Len(nodes) =>
              /\ \A i \in Ids : nodes'[i] = nodes[i]
              /\ \A i \in (Len(nodes) + 1)..Len(nodes') : nodes'[i].grad = Num(0)
       /\ (\E i \in Ids : nodes'[i].grad # nodes[i].grad) =>
              pc \in {"set_grad", "walk"} \/ zero_grad]_vars

\* an operator has been applied to a node that holds a grad from an earlier
\* backward()
C8_Witness ==
    /\ pc = "idle"
    /\ \E i \in Ids :
           /\ nodes[i].op # "leaf"
           /\ nodes[nodes[i].self].grad \notin {Num(0), Untracked}
           /\ calls # <<>>
           /\ i > Len(calls[Len(calls)].end)

\* C9: the children of a node were created strictly before it, so no node is
\* reachable from itself.
C9_Acyclic ==
    \A i \in Ids :
        /\ \A c \in Children(i) : c \in Ids /\ c < i
        /\ i \notin Below(i, Len(nodes))

\* a node with two children, one of them with a child of its own
C9_Witness ==
    \E i \in Ids :
        /\ Len(nodes[i].prev) = 2
        /\ \E c \in Children(i) : Children(c) # {}

\* no node is appended to topo twice, nor entered twice by build_topo
VisitedOnce ==
    /\ \A a, b \in 1..Len(topo) : a # b => topo[a] # topo[b]
    /\ \A a, b \in 1..Len(stack) : a # b => stack[a].v # stack[b].v
    /\ \A a \in 1..Len(stack), b \in 1..Len(topo) : stack[a].v # topo[b]

\* C10: termination.  build_topo visits each node at most once and a call of
\* backward() always ends.
C10_BackwardTerminates ==
    /\ []VisitedOnce
    /\ (pc # "idle") ~> (pc = "idle")

\* a call has returned on a graph where a node is the child of two nodes
C10_Witness ==
    /\ pc = "idle"
    /\ \E j \in Ended :
           /\ calls[j].status = "returned"
           /\ \E x \in Reach(calls[j].root) :
                  Cardinality(Parents(x, Reach(calls[j].root))) = 2

====
